---- MODULE Spec2Model ----
(***************************************************************************)
(* go-deep-research: the session runner (ChatSession.Run), the four        *)
(* workflows it sequences (clarify, brief, web research, report) and the   *)
(* concurrent summarizer (summarizeWebSearchResult) with its worker        *)
(* goroutines, job producer and result channel.                            *)
(*                                                                         *)
(* Texts are sequences of tokens (TLC has no string concatenation); the    *)
(* empty text is <<>>.  Job indices are 1-based here: index i of the model *)
(* is index i-1 of the Go code.                                            *)
(***************************************************************************)
EXTENDS Integers, Sequences, FiniteSets, TLC

\* ---------------------------------------------------------------- bounds
\* numWorkers := min(len(results), 5)
MaxWorkers == 5
\* the budget the web-search prompt states ("Always stop: After 5 search_tool calls")
SearchBudget == 5
\* user lines the input script holds before end-of-input
MaxLines == 2
\* model turns that request tools, in a run that starts at construction
SessionTurns == 1
\* model turns that request tools, in a run that starts at the Research phase
MaxModelTurns == 3
\* tool calls in one model turn
MaxToolCalls == 2
\* documents one search returns inside a session
MaxSearchDocs == 1
\* documents of a batch checked on its own, with failures and cancellation
MaxDocs == 3

VARIABLES
  pc,                      \* where the main goroutine is in Run / Execute
  cancelled,               \* the session context is done
  conversation,            \* ChatSessionState.conversation (clarify ledger)
  researchConversation,    \* ChatSessionState.researchConversation
  researchBrief,           \* ChatSessionState.researchBrief
  compressedResearchNotes, \* ChatSessionState.compressedResearchNotes
  toolCalls,               \* msg.ToolCalls of the current model turn
  tcIdx,                   \* position of the for-range over msg.ToolCalls
  iterRet,                 \* what the last webResearch.Execute returned
  runResult,               \* what Run returned: "running", "nil" or "err"
  reportPrinted,           \* Run printed the final report
  linesLeft,               \* environment: lines left on standard input
  modelTurnsLeft,          \* environment: tool-requesting turns the model still makes
  faults,                  \* environment: capability calls may fail, the user may interrupt
  apiKeySet,               \* environment: OPENAI_API_KEY is set (Config.OpenAIKey # "")
  calls,                   \* history: capability calls made, by kind
  phaseErr,                \* history: workflows whose Execute returned an error
  inputEnd,                \* history: why getUserMessage returned !ok
  results,                 \* summarizeWebSearchResult: the raw documents
  produced,                \* items the producer goroutine has sent on workChan
  workClosed,              \* workChan is closed
  taken,                   \* items the workers have received from workChan
  active,                  \* job index -> where the worker holding it is
  idle,                    \* workers waiting in `for work := range workChan`
  exited,                  \* workers whose goroutine has returned
  resultChan,              \* buffered channel of resultItem, capacity len(results)
  got,                     \* the orchestrator's loop counter i
  summarizedResearchNotes, \* the orchestrator's result slice
  batchRet,                \* what summarizeWebSearchResult returned
  preNotes,                \* history: compressedResearchNotes when the batch began
  failed,                  \* history: job indices whose capability call failed
  emitted,                 \* history: job index -> items its worker has sent on resultChan
  outOfOrder,              \* history: a summary arrived before one of a lower index
  lateOk,                  \* history: kinds of call that completed normally after cancellation
  cancelMid                \* history: cancellation arrived with a batch call in flight

sessVars == <<conversation, researchConversation, researchBrief, toolCalls, tcIdx,
              iterRet, runResult, reportPrinted, linesLeft, modelTurnsLeft,
              phaseErr, inputEnd>>
workVars == <<results, produced, workClosed, taken, active, idle, exited, resultChan,
              failed, emitted>>
orchVars == <<got, summarizedResearchNotes, batchRet, preNotes, outOfOrder,
              compressedResearchNotes>>
vars == <<pc, cancelled, faults, apiKeySet, calls, sessVars, workVars, orchVars,
          lateOk, cancelMid>>

\* ------------------------------------------------------------ pure helpers
Min(a, b) == IF a < b THEN a ELSE b

Bump(c, kind) == [c EXCEPT ![kind] = @ + 1]

NoCalls ==
  [k \in {"clarify", "brief", "complete", "search", "summarize", "report"} |-> 0]

Message(role, content, name, id) ==
  [Role |-> role, Content |-> content, Name |-> name, ToolCallID |-> id,
   ToolCalls |-> <<>>]

\* the i-th document text a search returns
Doc(i) == <<"doc", i>>

\* the stubbed structured completion for one document
StubNote(doc) == [Summary |-> <<"sum", doc[2]>>, KeyExcerpts |-> <<"exc", doc[2]>>]

\* var summarizedResearchNote SummarizedResearchOutputSchema (its zero value)
ZeroNote == [Summary |-> <<>>, KeyExcerpts |-> <<>>]

FormatSummary(note) ==
  <<"<summary>\n", note.Summary, "\n</summary>\n<key_excerpts>\n",
    note.KeyExcerpts, "\n</key_excerpts>">>

RECURSIVE JoinNL(_)
JoinNL(s) ==
  IF Len(s) = 0 THEN <<>>
  ELSE IF Len(s) = 1 THEN s[1]
  ELSE s[1] \o <<"\n">> \o JoinNL(Tail(s))

\* a pool with one worker per document
NumWorkersUncapped(n) == n

\* numWorkers := min(len(results), 5)
NumWorkers(n) == Min(n, MaxWorkers)

\* an orchestrator that does not look at result.err
IsErrIgnored(r) == FALSE

\* if result.err != nil
IsErr(r) == r.err

\* a slot chosen by arrival, not by the index tag
StoreResultByArrival(arr, r) == [arr EXCEPT ![got + 1] = r.summary]

\* summarizedResearchNotes[result.index] = result.summary
StoreResult(arr, r) == [arr EXCEPT ![r.index] = r.summary]

\* an assignment where the append should be
AppendNotesOverwriting(notes, arr) == arr

\* *compressedResearchNotes = append(*compressedResearchNotes, summarizedResearchNotes...)
AppendNotes(notes, arr) == notes \o arr

\* an acknowledgement without text
ReflectionResultEmpty(args) == <<>>

\* fmt.Sprintf("Reflection recorded: %s", ...)
ReflectionResult(args) == <<"Reflection recorded: ", args>>

\* a call made with a context that is never done
CtxCallCanSucceedDetached(done) == TRUE

\* a capability call that is handed ctx returns ctx's error once ctx is done
CtxCallCanSucceed(done) == ~done

\* a clarify loop that goes round whatever Execute returned
ClarifyContAlways(need) == TRUE

\* the cont flag ClarifyWithUserWorkflow.Execute returns: false with the
\* verification, true with the question
ClarifyCont(need) == need

\* the two fields of the structured answer taken the wrong way round
ClarifyReplySwapped(need) == IF need THEN <<"verification">> ELSE <<"question">>

\* the text ClarifyWithUserWorkflow.Execute appends and returns
ClarifyReply(need) == IF need THEN <<"question">> ELSE <<"verification">>

\* a research loop that only an error ends
RunAfterIterationLooping(ret) == IF ret = "err" THEN "report" ELSE "research"

\* Run's research loop: an error breaks, a false cont breaks, a true cont iterates
RunAfterIteration(ret) == IF ret = "cont" THEN "research" ELSE "report"

\* a Run that does not store the brief
SetResearchBriefSkipped(old, resp) == old

\* cs.state.researchBrief = resp.(string)
SetResearchBrief(old, resp) == resp

\* a tool message that does not name the call it answers
ToolMessageUnkeyed(content, call) == Message("tool", content, call.Name, <<>>)

\* openai.ChatCompletionMessage{Role: tool, Content, Name: toolCall.Function.Name,
\* ToolCallID: toolCall.ID}
ToolMessage(content, call) == Message("tool", content, call.Name, call.ID)

\* a tool message put in front of the tool messages already in the ledger
AppendToolMessageReordered(conv, msg) ==
  IF Len(conv) > 0 /\ conv[Len(conv)].Role = "tool"
  THEN SubSeq(conv, 1, Len(conv) - 1) \o <<msg, conv[Len(conv)]>>
  ELSE Append(conv, msg)

\* *wr.messages = append(*wr.messages, ...)
AppendToolMessage(conv, msg) == Append(conv, msg)

\* a return value that holds the last summary only
JoinSummariesLast(arr) == arr[Len(arr)]

\* strings.Join(summarizedResearchNotes, "\n")
JoinSummaries(arr) == JoinNL(arr)

\* a summarizer without its length check
EmptyResultsUnchecked(docs) == FALSE

\* if len(results) == 0
EmptyResults(docs) == Len(docs) = 0

\* summarizeWebSearchResult returns its "no results to summarize" error before it
\* makes a channel or starts a goroutine
BatchRefused(docs) ==
  /\ results' = docs
  /\ produced' = 0
  /\ workClosed' = FALSE
  /\ taken' = 0
  /\ active' = <<>>
  /\ idle' = 0
  /\ exited' = 0
  /\ resultChan' = <<>>
  /\ got' = 0
  /\ summarizedResearchNotes' = <<>>
  /\ batchRet' = [status |-> "err", text |-> <<>>]
  /\ preNotes' = compressedResearchNotes
  /\ outOfOrder' = FALSE
  /\ failed' = {}
  /\ emitted' = [i \in 1..Len(docs) |-> 0]

\* what a batch looks like when summarizeWebSearchResult has made its channels,
\* started its workers and its producer, and allocated its result slice
BatchStart(docs) ==
  /\ results' = docs
  /\ produced' = 0
  /\ workClosed' = FALSE
  /\ taken' = 0
  /\ active' = <<>>
  /\ idle' = NumWorkers(Len(docs))
  /\ exited' = 0
  /\ resultChan' = <<>>
  /\ got' = 0
  /\ summarizedResearchNotes' = [i \in 1..Len(docs) |-> <<>>]
  /\ batchRet' = [status |-> "none", text |-> <<>>]
  /\ preNotes' = compressedResearchNotes
  /\ outOfOrder' = FALSE
  /\ failed' = {}
  /\ emitted' = [i \in 1..Len(docs) |-> 0]

NoBatch ==
  /\ results = <<>>
  /\ produced = 0
  /\ workClosed = FALSE
  /\ taken = 0
  /\ active = <<>>
  /\ idle = 0
  /\ exited = 0
  /\ resultChan = <<>>
  /\ got = 0
  /\ summarizedResearchNotes = <<>>
  /\ batchRet = [status |-> "none", text |-> <<>>]
  /\ preNotes = <<>>
  /\ outOfOrder = FALSE
  /\ failed = {}
  /\ emitted = <<>>

\* ------------------------------------------------------------------- Init
\* the state NewChatSession leaves, before Run
Init ==
  /\ pc = "input"
  /\ cancelled = FALSE
  /\ conversation = <<>>
  /\ researchConversation = <<>>
  /\ researchBrief = <<>>
  /\ compressedResearchNotes = <<>>
  /\ toolCalls = <<>>
  /\ tcIdx = 0
  /\ iterRet = "none"
  /\ runResult = "running"
  /\ reportPrinted = FALSE
  /\ linesLeft = MaxLines
  /\ modelTurnsLeft = SessionTurns
  /\ faults = TRUE
  /\ apiKeySet \in BOOLEAN
  /\ calls = NoCalls
  /\ phaseErr = {}
  /\ inputEnd = "none"
  /\ lateOk = {}
  /\ cancelMid = FALSE
  /\ NoBatch

\* the state of a session that has clarified, written its brief and is about to
\* run its first Tool-Call Loop iteration (Run, "Workflow 3")
InitResearch ==
  /\ pc = "research"
  /\ cancelled = FALSE
  /\ conversation = << Message("user", <<"hello">>, "", <<>>),
                       Message("assistant", <<"verification">>, "", <<>>),
                       Message("assistant", <<"brief">>, "", <<>>) >>
  /\ researchConversation = << Message("user", <<"brief">>, "", <<>>) >>
  /\ researchBrief = <<"brief">>
  /\ compressedResearchNotes = <<>>
  /\ toolCalls = <<>>
  /\ tcIdx = 0
  /\ iterRet = "none"
  /\ runResult = "running"
  /\ reportPrinted = FALSE
  /\ linesLeft = MaxLines - 1
  /\ modelTurnsLeft = MaxModelTurns
  /\ faults = TRUE
  /\ apiKeySet = TRUE
  /\ calls = [NoCalls EXCEPT !["clarify"] = 1, !["brief"] = 1]
  /\ phaseErr = {}
  /\ inputEnd = "none"
  /\ lateOk = {}
  /\ cancelMid = FALSE
  /\ NoBatch

\* ------------------------------------------------------------ environment
Lines == { <<>>, <<"hello">> }

ToolNames == {"search_tool", "reflection_tool", "lookup_tool"}

ToolArguments == {"{json}", "garbage"}

ToolCallShapes == [Name : ToolNames, Arguments : ToolArguments]

\* the tool calls of the turn-th model turn: ids are opaque and distinct
MakeToolCalls(turn, shape) ==
  [k \in 1..Len(shape) |->
     [ID |-> <<"call", turn, k>>, Name |-> shape[k].Name,
      Arguments |-> shape[k].Arguments]]

AssistantTurn(tc) ==
  [Role |-> "assistant", Content |-> <<>>, Name |-> "", ToolCallID |-> <<>>,
   ToolCalls |-> tc]

\* structured-completion calls of the batch that are in flight
InFlight == Cardinality({j \in DOMAIN active : active[j] = "call"})

\* SIGINT / SIGTERM: setupGracefulShutdown cancels the context the session's derives from
Cancel ==
  /\ faults
  /\ runResult = "running"
  /\ ~cancelled
  /\ cancelled' = TRUE
  /\ cancelMid' = (pc = "batch" /\ InFlight > 0)
  /\ UNCHANGED <<pc, faults, apiKeySet, calls, sessVars, workVars, orchVars, lateOk>>

\* ------------------------------------------------------------ ChatSession
\* a ledger restarted at every user message
AddUserMessageReplacing(conv, message) ==
  IF Len(message) = 0 THEN conv
  ELSE << Message("user", message, "", <<>>) >>

AddUserMessage(conv, message) ==
  IF Len(message) = 0 THEN conv
  ELSE Append(conv, Message("user", message, "", <<>>))

\* processUserInput with getUserMessage; when it returns false Run breaks out of
\* the clarify loop and goes on to "Workflow 2"
ProcessUserInput ==
  /\ pc = "input"
  /\ \/ /\ cancelled
        /\ inputEnd' = "cancel"
        /\ pc' = "brief"
        /\ UNCHANGED <<conversation, linesLeft>>
     \/ /\ ~cancelled
        /\ inputEnd' = "eof"
        /\ pc' = "brief"
        /\ UNCHANGED <<conversation, linesLeft>>
     \/ /\ ~cancelled
        /\ linesLeft > 0
        /\ \E line \in Lines :
             conversation' = AddUserMessage(conversation, line)
        /\ linesLeft' = linesLeft - 1
        /\ pc' = "clarify"
        /\ UNCHANGED inputEnd
  /\ UNCHANGED <<cancelled, faults, apiKeySet, lateOk, cancelMid, calls,
                 researchConversation, researchBrief, toolCalls, tcIdx, iterRet,
                 runResult, reportPrinted, modelTurnsLeft, phaseErr, workVars,
                 orchVars>>

\* ClarifyWithUserWorkflow.Execute and Run's handling of what it returns
ClarifyExecute ==
  /\ pc = "clarify"
  /\ calls' = Bump(calls, "clarify")
  /\ \/ /\ phaseErr' = phaseErr \cup {"clarify"}
        /\ pc' = "brief"
        /\ UNCHANGED conversation
     \/ /\ CtxCallCanSucceed(cancelled)
        /\ apiKeySet
        /\ \E need \in BOOLEAN :
             /\ conversation' =
                  Append(conversation,
                         Message("assistant", ClarifyReply(need), "", <<>>))
             /\ pc' = IF ClarifyCont(need) THEN "input" ELSE "brief"
        /\ UNCHANGED phaseErr
  /\ UNCHANGED <<cancelled, faults, apiKeySet, lateOk, cancelMid, researchConversation,
                 researchBrief, toolCalls, tcIdx, iterRet, runResult, reportPrinted,
                 linesLeft, modelTurnsLeft, inputEnd, workVars, orchVars>>

\* ResearchBriefGenerationWorkflow.Execute and Run's handling of what it returns
SeedLedgerMerging(conv, brief) == Append(conversation, Message("user", brief, "", <<>>))

SeedLedgerAsAssistant(conv, brief) == Append(conv, Message("assistant", brief, "", <<>>))

\* Run seeds the research ledger with the brief as a user-role message.
SeedLedger(conv, brief) == Append(conv, Message("user", brief, "", <<>>))

BriefExecute ==
  /\ pc = "brief"
  /\ calls' = Bump(calls, "brief")
  /\ \/ /\ phaseErr' = phaseErr \cup {"brief"}
        /\ runResult' = "err"
        /\ pc' = "done"
        /\ UNCHANGED <<conversation, researchBrief, researchConversation>>
     \/ /\ CtxCallCanSucceed(cancelled)
        /\ apiKeySet
        /\ conversation' = Append(conversation, Message("assistant", <<"brief">>, "", <<>>))
        /\ researchBrief' = SetResearchBrief(researchBrief, <<"brief">>)
        /\ researchConversation' = SeedLedger(researchConversation, <<"brief">>)
        /\ pc' = "research"
        /\ UNCHANGED <<phaseErr, runResult>>
  /\ UNCHANGED <<cancelled, faults, apiKeySet, lateOk, cancelMid, toolCalls, tcIdx,
                 iterRet, reportPrinted, linesLeft, modelTurnsLeft, inputEnd, workVars,
                 orchVars>>

\* an Execute that drops the error and returns ("", true, nil)
IterationFailsAsContinue ==
  /\ iterRet' = "cont"
  /\ UNCHANGED phaseErr
  /\ pc' = RunAfterIteration("cont")

\* webResearch.Execute returned an error: Run logs it and breaks to "Workflow 4"
IterationFails ==
  /\ iterRet' = "err"
  /\ phaseErr' = phaseErr \cup {"research"}
  /\ pc' = RunAfterIteration("err")

\* the for-range over msg.ToolCalls moves on; after the last call Execute
\* returns ("", true, nil) and Run starts the next iteration
NextToolCall ==
  IF tcIdx < Len(toolCalls)
  THEN /\ tcIdx' = tcIdx + 1
       /\ pc' = "dispatch"
       /\ UNCHANGED iterRet
  ELSE /\ iterRet' = "cont"
       /\ pc' = RunAfterIteration("cont")
       /\ UNCHANGED tcIdx

\* WebResearchWorkflow.Execute up to the tool loop: the completion call, the
\* append of the model's turn, the early return on a turn without tool calls
ResearchTurn ==
  /\ pc = "research"
  /\ calls' = Bump(calls, "complete")
  /\ \/ /\ IterationFails
        /\ UNCHANGED <<researchConversation, toolCalls, tcIdx, modelTurnsLeft>>
     \/ /\ CtxCallCanSucceed(cancelled)
        /\ apiKeySet
        /\ \E n \in 0..MaxToolCalls : \E shape \in [1..n -> ToolCallShapes] :
             LET tc == MakeToolCalls(calls["complete"] + 1, shape) IN
             /\ n > 0 => modelTurnsLeft > 0
             /\ modelTurnsLeft' = IF n > 0 THEN modelTurnsLeft - 1 ELSE modelTurnsLeft
             /\ researchConversation' = Append(researchConversation, AssistantTurn(tc))
             /\ toolCalls' = tc
             /\ IF n = 0
                THEN /\ iterRet' = "stop"
                     /\ pc' = RunAfterIteration("stop")
                     /\ UNCHANGED tcIdx
                ELSE /\ tcIdx' = 1
                     /\ pc' = "dispatch"
                     /\ UNCHANGED iterRet
        /\ UNCHANGED phaseErr
  /\ UNCHANGED <<cancelled, faults, apiKeySet, lateOk, cancelMid, conversation,
                 researchBrief, runResult, reportPrinted, linesLeft, inputEnd, workVars,
                 orchVars>>

\* one pass of the tool loop for a search_tool call: SearchTool.Execute, which is
\* not handed ctx, then the entry of summarizeWebSearchResult (its length check,
\* channels, workers, producer)
DispatchSearch ==
  /\ pc = "dispatch"
  /\ toolCalls[tcIdx].Name = "search_tool"
  /\ calls' = Bump(calls, "search")
  /\ \/ /\ IterationFails
        /\ UNCHANGED <<tcIdx, workVars, orchVars, lateOk>>
     \/ /\ toolCalls[tcIdx].Arguments = "{json}"
        /\ lateOk' = IF cancelled THEN lateOk \cup {"search"} ELSE lateOk
        /\ \E n \in 0..MaxSearchDocs :
             LET docs == [i \in 1..n |-> Doc(i)] IN
             IF EmptyResults(docs)
             THEN /\ BatchRefused(docs)
                  /\ pc' = "searchRet"
             ELSE /\ BatchStart(docs)
                  /\ pc' = "batch"
        /\ UNCHANGED <<tcIdx, iterRet, phaseErr, compressedResearchNotes>>
  /\ UNCHANGED <<cancelled, faults, apiKeySet, cancelMid, conversation,
                 researchConversation, researchBrief, toolCalls, runResult,
                 reportPrinted, linesLeft, modelTurnsLeft, inputEnd>>

\* one pass of the tool loop for a reflection_tool call: ReflectionTool.Execute
DispatchReflection ==
  /\ pc = "dispatch"
  /\ toolCalls[tcIdx].Name = "reflection_tool"
  /\ IF toolCalls[tcIdx].Arguments = "{json}"
     THEN /\ researchConversation' =
               AppendToolMessage(researchConversation,
                                 ToolMessage(ReflectionResult(toolCalls[tcIdx].Arguments),
                                             toolCalls[tcIdx]))
          /\ NextToolCall
          /\ UNCHANGED phaseErr
     ELSE /\ IterationFails
          /\ UNCHANGED <<researchConversation, tcIdx>>
  /\ UNCHANGED <<cancelled, faults, apiKeySet, lateOk, cancelMid, calls, conversation,
                 researchBrief, toolCalls, runResult, reportPrinted, linesLeft,
                 modelTurnsLeft, inputEnd, workVars, orchVars>>

\* a tool loop that returns an error for a name it does not know
DispatchOtherRejecting ==
  /\ pc = "dispatch"
  /\ toolCalls[tcIdx].Name \notin {"search_tool", "reflection_tool"}
  /\ IterationFails
  /\ UNCHANGED <<cancelled, faults, apiKeySet, lateOk, cancelMid, calls, conversation,
                 researchConversation, researchBrief, toolCalls, tcIdx, runResult,
                 reportPrinted, linesLeft, modelTurnsLeft, inputEnd, workVars,
                 orchVars>>

\* one pass of the tool loop for a call that matches neither name
DispatchOther ==
  /\ pc = "dispatch"
  /\ toolCalls[tcIdx].Name \notin {"search_tool", "reflection_tool"}
  /\ NextToolCall
  /\ UNCHANGED <<cancelled, faults, apiKeySet, lateOk, cancelMid, calls, conversation,
                 researchConversation, researchBrief, toolCalls, runResult,
                 reportPrinted, linesLeft, modelTurnsLeft, phaseErr, inputEnd, workVars,
                 orchVars>>

\* summarizeWebSearchResult has returned to the tool loop
SearchReturn ==
  /\ pc = "searchRet"
  /\ IF batchRet.status = "err"
     THEN /\ IterationFails
          /\ UNCHANGED <<researchConversation, tcIdx>>
     ELSE /\ researchConversation' =
               AppendToolMessage(researchConversation,
                                 ToolMessage(batchRet.text, toolCalls[tcIdx]))
          /\ NextToolCall
          /\ UNCHANGED phaseErr
  /\ UNCHANGED <<cancelled, faults, apiKeySet, lateOk, cancelMid, calls, conversation,
                 researchBrief, toolCalls, runResult, reportPrinted, linesLeft,
                 modelTurnsLeft, inputEnd, workVars, orchVars>>

\* ResearchReportGeneration.Execute, the print of the report and Run's return
RunAfterReportRestart == "input"

\* Run returns to main once the report call has returned, with or without error.
RunAfterReport == "done"

ReportExecute ==
  /\ pc = "report"
  /\ calls' = Bump(calls, "report")
  /\ \/ /\ phaseErr' = phaseErr \cup {"report"}
        /\ runResult' = "err"
        /\ UNCHANGED reportPrinted
     \/ /\ CtxCallCanSucceed(cancelled)
        /\ apiKeySet
        /\ reportPrinted' = TRUE
        /\ runResult' = "nil"
        /\ UNCHANGED phaseErr
  /\ pc' = RunAfterReport
  /\ UNCHANGED <<cancelled, faults, apiKeySet, lateOk, cancelMid, conversation,
                 researchConversation, researchBrief, toolCalls, tcIdx, iterRet,
                 linesLeft, modelTurnsLeft, inputEnd, workVars, orchVars>>

\* main: os.Exit(1) when Run returns an error
ExitCode == IF runResult = "err" THEN 1 ELSE 0

\* ------------------------------------------- summarizeWebSearchResult
\* the process is alive: goroutines stop when main returns
Running == runResult = "running"

MoreWorkInclusive(sent, n) == sent <= n

\* for i, result := range results : one workItem per element of the slice
MoreWork(sent, n) == sent < n

\* the producer goroutine: one send per document (workChan holds len(results)
\* items, so a send never blocks), then the deferred close(workChan)
Produce ==
  /\ Running
  /\ ~workClosed
  /\ results # <<>>
  /\ IF MoreWork(produced, Len(results))
     THEN /\ produced' = produced + 1
          /\ UNCHANGED workClosed
     ELSE /\ workClosed' = TRUE
          /\ UNCHANGED produced
  /\ UNCHANGED <<pc, cancelled, faults, apiKeySet, lateOk, cancelMid, calls, sessVars,
                 results, emitted, taken, active, idle, exited, resultChan, failed,
                 orchVars>>

\* a worker receives the next workItem and starts its CreateChatCompletion call
\* (PromptBuilder cannot fail on the fixed template, so that branch is not taken)
WorkerTake ==
  /\ Running
  /\ idle > 0
  /\ taken < produced
  /\ taken' = taken + 1
  /\ idle' = idle - 1
  /\ active' = (taken + 1 :> "call") @@ active
  /\ calls' = Bump(calls, "summarize")
  /\ UNCHANGED <<pc, cancelled, faults, apiKeySet, lateOk, cancelMid, sessVars, results,
                 emitted, produced, workClosed, exited, resultChan, failed, orchVars>>

\* a worker's range over workChan ends: the channel is closed and empty
WorkerExit ==
  /\ Running
  /\ idle > 0
  /\ taken = produced
  /\ workClosed
  /\ idle' = idle - 1
  /\ exited' = exited + 1
  /\ UNCHANGED <<pc, cancelled, faults, apiKeySet, lateOk, cancelMid, calls, sessVars,
                 results, emitted, produced, workClosed, taken, active, resultChan,
                 failed, orchVars>>

\* a worker's CreateChatCompletion returns: a filled note, or an error (always an
\* error once the context is cancelled)
WorkerCallReturn ==
  /\ Running
  /\ \E j \in DOMAIN active :
       /\ active[j] = "call"
       /\ \/ /\ CtxCallCanSucceed(cancelled)
             /\ apiKeySet
             /\ active' = [active EXCEPT ![j] = "send"]
             /\ UNCHANGED failed
          \/ /\ faults
             /\ active' = [active EXCEPT ![j] = "sendErr"]
             /\ failed' = failed \cup {j}
  /\ UNCHANGED <<pc, cancelled, faults, apiKeySet, lateOk, cancelMid, calls, sessVars,
                 results, emitted, produced, workClosed, taken, idle, exited,
                 resultChan, orchVars>>

\* if err != nil { resultChan <- resultItem{index, err} }  -- with no continue, so
\* the worker goes on to the send of the summary below
WorkerSendErr ==
  /\ Running
  /\ \E j \in DOMAIN active :
       /\ active[j] = "sendErr"
       /\ Len(resultChan) < Len(results)
       /\ resultChan' = Append(resultChan, [index |-> j, summary |-> <<>>, err |-> TRUE])
       /\ emitted' = [emitted EXCEPT ![j] = @ + 1]
       /\ active' = [active EXCEPT ![j] = "sendAfterErr"]
  /\ UNCHANGED <<pc, cancelled, faults, apiKeySet, lateOk, cancelMid, calls, sessVars,
                 results, produced, workClosed, taken, idle, exited, failed, orchVars>>

\* the note a worker formats: what the call filled in, or the zero value after an error
WorkerNote(j) == IF active[j] = "send" THEN StubNote(results[j]) ELSE ZeroNote

\* resultChan <- resultItem{index, summary}; the worker then waits for more work
WorkerSendSummary ==
  /\ Running
  /\ \E j \in DOMAIN active :
       /\ active[j] \in {"send", "sendAfterErr"}
       /\ Len(resultChan) < Len(results)
       /\ resultChan' = Append(resultChan, [index |-> j,
                                            summary |-> FormatSummary(WorkerNote(j)),
                                            err |-> FALSE])
       /\ emitted' = [emitted EXCEPT ![j] = @ + 1]
       /\ active' = [k \in DOMAIN active \ {j} |-> active[k]]
       /\ idle' = idle + 1
  /\ UNCHANGED <<pc, cancelled, faults, apiKeySet, lateOk, cancelMid, calls, sessVars,
                 results, produced, workClosed, taken, exited, failed, orchVars>>

MoreResultsInclusive(i, n) == i <= n

\* for i := 0; i < len(results); i++ : the loop goes on while i items were read
MoreResults(i, n) == i < n

\* the orchestrator's loop: one receive from resultChan; an error returns at once,
\* the len(results)-th summary appends the slice to the notes and returns the join
OrchRecv ==
  /\ pc = "batch"
  /\ resultChan # <<>>
  /\ resultChan' = Tail(resultChan)
  /\ IF IsErr(Head(resultChan))
     THEN /\ batchRet' = [status |-> "err", text |-> <<>>]
          /\ pc' = "searchRet"
          /\ UNCHANGED <<got, summarizedResearchNotes, compressedResearchNotes,
                         outOfOrder>>
     ELSE /\ summarizedResearchNotes' =
               StoreResult(summarizedResearchNotes, Head(resultChan))
          /\ got' = got + 1
          /\ outOfOrder' = (outOfOrder \/ Head(resultChan).index # got + 1)
          /\ IF ~MoreResults(got + 1, Len(results))
             THEN /\ compressedResearchNotes' =
                       AppendNotes(compressedResearchNotes, summarizedResearchNotes')
                  /\ batchRet' = [status |-> "ok",
                                  text |-> JoinSummaries(summarizedResearchNotes')]
                  /\ pc' = "searchRet"
             ELSE UNCHANGED <<compressedResearchNotes, batchRet, pc>>
  /\ UNCHANGED <<cancelled, faults, apiKeySet, lateOk, cancelMid, calls, sessVars,
                 results, emitted, produced, workClosed, taken, active, idle, exited,
                 failed, preNotes>>

\* ------------------------------------------------------------------ specs
BatchNext ==
  \/ Produce
  \/ WorkerTake
  \/ WorkerExit
  \/ WorkerCallReturn
  \/ WorkerSendErr
  \/ WorkerSendSummary
  \/ OrchRecv

ResearchNext ==
  \/ ResearchTurn
  \/ DispatchSearch
  \/ DispatchReflection
  \/ DispatchOther
  \/ SearchReturn
  \/ ReportExecute
  \/ Cancel
  \/ BatchNext

Next ==
  \/ ProcessUserInput
  \/ ClarifyExecute
  \/ BriefExecute
  \/ ResearchNext

\* a whole session, from construction
Spec == Init /\ [][Next]_vars

\* the Research phase and what follows it, with a model that keeps asking for tools
SpecResearch == InitResearch /\ [][ResearchNext]_vars

\* a search invocation inside a Research phase, entered summarizeWebSearchResult
\* with docs: the first search of the phase, or a later one
InBatch(docs, notes, env) ==
  /\ pc = "batch"
  /\ cancelled = FALSE
  /\ conversation = << Message("user", <<"hello">>, "", <<>>),
                       Message("assistant", <<"verification">>, "", <<>>),
                       Message("assistant", <<"brief">>, "", <<>>) >>
  /\ researchBrief = <<"brief">>
  /\ toolCalls = MakeToolCalls(1, <<[Name |-> "search_tool", Arguments |-> "{json}"]>>)
  /\ researchConversation = << Message("user", <<"brief">>, "", <<>>),
                               AssistantTurn(toolCalls) >>
  /\ compressedResearchNotes = notes
  /\ tcIdx = 1
  /\ iterRet = "none"
  /\ runResult = "running"
  /\ reportPrinted = FALSE
  /\ linesLeft = MaxLines - 1
  /\ modelTurnsLeft = 0
  /\ faults = env
  /\ apiKeySet = TRUE
  /\ calls = [NoCalls EXCEPT !["clarify"] = 1, !["brief"] = 1, !["complete"] = 1,
                             !["search"] = 1]
  /\ phaseErr = {}
  /\ inputEnd = "none"
  /\ lateOk = {}
  /\ cancelMid = FALSE
  /\ results = docs
  /\ produced = 0
  /\ workClosed = FALSE
  /\ taken = 0
  /\ active = <<>>
  /\ idle = NumWorkers(Len(docs))
  /\ exited = 0
  /\ resultChan = <<>>
  /\ got = 0
  /\ summarizedResearchNotes = [i \in 1..Len(docs) |-> <<>>]
  /\ batchRet = [status |-> "none", text |-> <<>>]
  /\ preNotes = notes
  /\ outOfOrder = FALSE
  /\ failed = {}
  /\ emitted = [i \in 1..Len(docs) |-> 0]

\* batches of 1..MaxDocs documents against capabilities that may fail and a user
\* who may interrupt, and one batch larger than the worker pool against
\* capabilities that answer
InitBatch ==
  \/ \E n \in 1..MaxDocs :
       \E notes \in { <<>>, <<FormatSummary(StubNote(Doc(1)))>> } :
         InBatch([i \in 1..n |-> Doc(i)], notes, TRUE)
  \/ InBatch([i \in 1..MaxWorkers + 1 |-> Doc(i)], <<>>, FALSE)

SpecBatch == InitBatch /\ [][BatchNext \/ Cancel]_vars

\* a batch and the tool loop's step after summarizeWebSearchResult has returned
SpecBatchReturn == InitBatch /\ [][BatchNext \/ Cancel \/ SearchReturn]_vars

\* the Go scheduler runs every goroutine that can take a step
SpecBatchFair == InitBatch /\ [][BatchNext \/ Cancel]_vars /\ WF_vars(BatchNext)

\* ----------------------------------------------------------------- claims
\* what the batch owes for its documents: one formatted entry per document, in
\* the documents' order
ExpectedEntries == [i \in 1..Len(results) |-> FormatSummary(StubNote(results[i]))]

\* C1: within one Research phase the number of search invocations dispatched never
\* exceeds the budget of 5, whatever the model's turns ask for.
C1_SearchBudgetNeverExceeded == calls["search"] <= SearchBudget

\* C2: once 5 search invocations have been executed, a Tool-Call Loop iteration
\* does not return the continuation flag true (the state is the one right after
\* an iteration returned true: Run is about to call Execute again).
C2_NoContinuationAtBudget ==
  (pc = "research" /\ iterRet = "cont") => calls["search"] < SearchBudget

\* C3: when all N jobs of a batch succeed, the text the summarizer returns is the
\* newline-join of the summaries of documents 1..N in that order, in whatever
\* order the workers finished.
C3_OrderPreserved ==
  (batchRet.status = "ok" /\ failed = {}) => batchRet.text = JoinNL(ExpectedEntries)

C3_Witness ==
  /\ batchRet.status = "ok"
  /\ failed = {}
  /\ Len(results) = MaxDocs
  /\ outOfOrder

\* C4: after a batch of N jobs returns without error, the compressed notes have the
\* pre-batch length + N, their pre-batch prefix is unchanged, and the N new entries
\* are those of jobs 1..N in index order.
C4_NotesAppended ==
  batchRet.status = "ok" =>
    /\ Len(compressedResearchNotes) = Len(preNotes) + Len(results)
    /\ SubSeq(compressedResearchNotes, 1, Len(preNotes)) = preNotes
    /\ SubSeq(compressedResearchNotes, Len(preNotes) + 1,
              Len(compressedResearchNotes)) = ExpectedEntries

C4_Witness ==
  /\ batchRet.status = "ok"
  /\ preNotes # <<>>
  /\ Len(results) = MaxDocs
  /\ outOfOrder

\* C5: if at least one job of a batch failed, the summarizer call does not return
\* success, and when it returns an error the compressed notes are exactly what
\* they were before the batch.
C5_BatchAtomic ==
  /\ (failed # {} /\ batchRet.status # "none") => batchRet.status = "err"
  /\ batchRet.status = "err" => compressedResearchNotes = preNotes

C5_Witness ==
  /\ batchRet.status = "err"
  /\ failed # {}
  /\ got >= 1
  /\ preNotes # <<>>
  /\ Len(results) = MaxDocs

\* C6: a batch of N documents has exactly min(N, 5) workers (waiting, holding a job
\* or returned), and never more than min(N, 5) structured-completion calls in flight.
C6_WorkerBound ==
  results # <<>> =>
    /\ idle + Cardinality(DOMAIN active) + exited = Min(Len(results), MaxWorkers)
    /\ InFlight <= Min(Len(results), MaxWorkers)
    /\ InFlight <= 5

C6_Witness ==
  /\ Len(results) > MaxWorkers
  /\ InFlight = MaxWorkers
  /\ taken < produced

\* C7: after a capability error in the Clarify phase no Brief, Research or Report
\* capability call is made, and Run does not return nil.
C7_ClarifyErrorFatal ==
  "clarify" \in phaseErr =>
    /\ calls["brief"] = 0
    /\ calls["complete"] = 0
    /\ calls["search"] = 0
    /\ calls["report"] = 0
    /\ runResult # "nil"

\* C8: after a Tool-Call Loop iteration returned an error the report capability is
\* not invoked and no report is printed.
C8_NoReportAfterFailedResearch ==
  iterRet = "err" => (calls["report"] = 0 /\ ~reportPrinted)

\* C9: when Run has returned, the exit code is 0 only if the report was printed,
\* and it is 1 if any workflow's Execute returned an error.
C9_ExitCode ==
  pc = "done" =>
    /\ ExitCode = 0 => reportPrinted
    /\ phaseErr # {} => ExitCode = 1

\* C10: after end-of-input in the Clarify phase no Brief, Research or Report
\* capability call is made and the session does not end with an error.
C10_EndOfInputEndsSession ==
  inputEnd = "eof" =>
    /\ calls["brief"] = 0
    /\ calls["complete"] = 0
    /\ calls["search"] = 0
    /\ calls["report"] = 0
    /\ runResult # "err"

\* C11: once getUserMessage has returned because the context was cancelled, the
\* session only has its Brief call left, which fails: no Research iteration, no
\* search and no Report call is made, no report is printed, and Run returns an error.
C11_CancelAtInputEndsSession ==
  inputEnd = "cancel" =>
    /\ pc \in {"brief", "done"}
    /\ calls["complete"] = 0
    /\ calls["search"] = 0
    /\ calls["summarize"] = 0
    /\ calls["report"] = 0
    /\ ~reportPrinted
    /\ pc = "done" => runResult = "err"

C11_Witness ==
  /\ inputEnd = "cancel"
  /\ pc = "done"
  /\ calls["clarify"] >= 1

\* C12: when cancellation arrived while a batch had a structured-completion call
\* in flight, the summarizer never returns success, the compressed notes stay
\* what they were before the batch, whatever had been computed by then, and the
\* summarizer does return an error.
C12_CancelMidBatch ==
  /\ [](cancelMid => (batchRet.status # "ok" /\ compressedResearchNotes = preNotes))
  /\ cancelMid ~> (batchRet.status = "err")

C12_Witness ==
  /\ cancelMid
  /\ batchRet.status = "err"
  /\ got >= 1
  /\ preNotes # <<>>

\* C13: once the session context is cancelled, no capability call of any kind
\* (completion, structured completion, search) completes normally.
C13_NoCallCompletesAfterCancel == lateOk = {}

\* the first clarify call that returned answered with the verification (no
\* clarification needed): the ledger's first assistant message is a verification
FirstClarifySufficient ==
  \E i \in 1..Len(conversation) :
    /\ conversation[i].Role = "assistant"
    /\ conversation[i].Content = <<"verification">>
    /\ \A k \in 1..(i - 1) : conversation[k].Role = "user"

\* lines getUserMessage has read from standard input
LinesRead == MaxLines - linesLeft

\* C14: when the first clarify call answers "no clarification needed", exactly one
\* user line has been read and exactly one clarify call made, the session is past
\* the clarify loop, and until the Brief call is made no other capability is called.
C14_OneTurnClarify ==
  FirstClarifySufficient =>
    /\ LinesRead = 1
    /\ calls["clarify"] = 1
    /\ pc \notin {"input", "clarify"}
    /\ calls["brief"] = 0 =>
         /\ pc = "brief"
         /\ calls["complete"] = 0
         /\ calls["search"] = 0
         /\ calls["summarize"] = 0
         /\ calls["report"] = 0

C14_Witness ==
  /\ FirstClarifySufficient
  /\ calls["brief"] = 1
  /\ pc = "research"

\* the clarify ledger holds a verification message
HasVerification ==
  \E i \in 1..Len(conversation) : conversation[i].Content = <<"verification">>

\* C15: a clarify call that returns without error appends exactly one message to
\* the clarify ledger, an assistant message: either the question, and the session
\* goes back to reading a user line, or the verification, and the session goes on
\* to the Brief phase; once a verification is in the ledger no line is read again.
C15_ClarifyAppendsOne ==
  [][ /\ (calls'["clarify"] # calls["clarify"] /\ "clarify" \notin phaseErr') =>
           /\ Len(conversation') = Len(conversation) + 1
           /\ SubSeq(conversation', 1, Len(conversation)) = conversation
           /\ conversation'[Len(conversation')].Role = "assistant"
           /\ \/ /\ conversation'[Len(conversation')].Content = <<"question">>
                 /\ pc' = "input"
              \/ /\ conversation'[Len(conversation')].Content = <<"verification">>
                 /\ pc' = "brief"
      /\ HasVerification => linesLeft' = linesLeft
    ]_vars

C15_Witness ==
  /\ Len(conversation) = 4
  /\ conversation[2].Content = <<"question">>
  /\ conversation[4].Content = <<"verification">>
  /\ pc = "brief"

\* C16: a completion call whose model turn has no tool calls appends that turn to
\* the research ledger and returns "no continuation" with nothing dispatched and
\* the compressed notes untouched; after that return no completion, search or
\* summarization call is made and neither the research ledger nor the notes change.
C16_NoToolCallsEndsResearch ==
  [][ /\ ( /\ calls'["complete"] # calls["complete"]
           /\ Len(researchConversation') > Len(researchConversation)
           /\ researchConversation'[Len(researchConversation')].ToolCalls = <<>> ) =>
           /\ researchConversation' =
                Append(researchConversation, AssistantTurn(<<>>))
           /\ iterRet' = "stop"
           /\ pc' = "report"
           /\ calls'["search"] = calls["search"]
           /\ calls'["summarize"] = calls["summarize"]
           /\ compressedResearchNotes' = compressedResearchNotes
      /\ iterRet = "stop" =>
           /\ iterRet' = "stop"
           /\ calls'["complete"] = calls["complete"]
           /\ calls'["search"] = calls["search"]
           /\ calls'["summarize"] = calls["summarize"]
           /\ researchConversation' = researchConversation
           /\ compressedResearchNotes' = compressedResearchNotes
    ]_vars

C16_Witness ==
  /\ iterRet = "stop"
  /\ pc = "done"
  /\ compressedResearchNotes # <<>>
  /\ Len(researchConversation) >= 4

\* the tool loop is at an invocation that is bound to fail: a search_tool or
\* reflection_tool call whose arguments do not decode, or a summarizer that has
\* returned an error
ToolFails ==
  \/ /\ pc = "dispatch"
     /\ toolCalls[tcIdx].Name \in {"search_tool", "reflection_tool"}
     /\ toolCalls[tcIdx].Arguments = "garbage"
  \/ /\ pc = "searchRet"
     /\ batchRet.status = "err"

\* C17: the step the tool loop takes at a failing invocation returns the error to
\* Run: no tool message is appended, the loop does not move to the next
\* invocation, and the iteration's result is the error, not a continuation; after
\* an iteration returned an error no search or completion call is made and the
\* research ledger does not change.
C17_ToolErrorAbortsIteration ==
  [][ /\ ( /\ ToolFails
           /\ <<pc, tcIdx, iterRet, researchConversation>>' #
                <<pc, tcIdx, iterRet, researchConversation>> ) =>
           /\ iterRet' = "err"
           /\ pc' = "report"
           /\ tcIdx' = tcIdx
           /\ researchConversation' = researchConversation
      /\ iterRet = "err" =>
           /\ iterRet' = "err"
           /\ tcIdx' = tcIdx
           /\ calls'["search"] = calls["search"]
           /\ calls'["complete"] = calls["complete"]
           /\ researchConversation' = researchConversation
    ]_vars

C17_Witness ==
  /\ iterRet = "err"
  /\ batchRet.status = "err"
  /\ failed # {}
  /\ tcIdx = 1
  /\ Len(toolCalls) = 2
  /\ pc = "done"

\* s is t, or t with messages added at its end
IsPrefix(s, t) == Len(s) <= Len(t) /\ SubSeq(t, 1, Len(s)) = s

\* C18: in every step, each of the two ledgers keeps every message it held, at
\* the same position and unchanged; a step only adds messages at the end.
C18_LedgersAppendOnly ==
  [][ /\ IsPrefix(conversation, conversation')
      /\ IsPrefix(researchConversation, researchConversation') ]_vars

C18_Witness ==
  /\ Len(conversation) >= 4
  /\ Len(researchConversation) >= 3
  /\ iterRet = "err"
  /\ pc = "done"

\* C19: the brief changes only in the step that completes the first and only
\* Brief call, from empty to the brief text; throughout Research and at the
\* Report call it is that text, the one the research ledger was seeded with.
C19_BriefWrittenOnce ==
  [][ /\ researchBrief' # researchBrief =>
           /\ pc = "brief"
           /\ calls["brief"] = 0
           /\ researchBrief = <<>>
      /\ pc' \in {"research", "dispatch", "batch", "searchRet", "report"} =>
           /\ researchBrief' # <<>>
           /\ researchBrief' = researchConversation'[1].Content
    ]_vars

C19_Witness ==
  /\ pc = "done"
  /\ reportPrinted
  /\ researchBrief = <<"brief">>
  /\ calls["brief"] = 1

\* summarizeWebSearchResult was called with no documents
CalledEmpty == results = <<>> /\ (pc = "batch" \/ batchRet.status # "none")

\* C20: a summarizer called with an empty list has returned an error: it is not
\* waiting for results, it has no worker (waiting, holding a job or returned), no
\* job was produced or taken, so no capability call was made, and the compressed
\* notes are what they were at the call.
C20_EmptyBatchRefused ==
  CalledEmpty =>
    /\ batchRet.status = "err"
    /\ pc # "batch"
    /\ idle + Cardinality(DOMAIN active) + exited = 0
    /\ produced = 0
    /\ taken = 0
    /\ compressedResearchNotes = preNotes

C20_Witness ==
  /\ CalledEmpty
  /\ preNotes # <<>>
  /\ iterRet = "err"
  /\ pc = "done"

\* C21: the Research loop is bounded by the search budget: once 5 searches have
\* been executed Run starts no further Tool-Call Loop iteration, so a model that
\* asks for a search on every turn is stopped after finitely many iterations.
C21_ResearchBoundedByBudget ==
  [][calls["search"] >= SearchBudget => calls'["complete"] = calls["complete"]]_vars

\* C22: when summarizeWebSearchResult has returned, with a result or with an
\* error, every worker goroutine of the batch has returned: none holds a job
\* (running its call or blocked on a send) and none waits on the work channel.
C22_WorkersFinishBeforeReturn ==
  (batchRet.status # "none" /\ results # <<>>) =>
    /\ Cardinality(DOMAIN active) = 0
    /\ idle = 0
    /\ exited = Min(Len(results), MaxWorkers)

\* items the orchestrator has received from resultChan: the summaries it stored,
\* and the error item it returned on
Drained == got + (IF batchRet.status = "err" THEN 1 ELSE 0)

\* C23: when summarizeWebSearchResult has returned for N documents, with a result
\* or with an error, its orchestrator has received exactly N items from the
\* result channel.
C23_DrainsAllResults ==
  (batchRet.status # "none" /\ results # <<>>) => Drained = Len(results)

\* C24: a session started without the API credential reads no user line and
\* makes no capability call: construction fails before any phase runs.
C24_MissingCredentialFatal ==
  ~apiKeySet => (LinesRead = 0 /\ calls = NoCalls)

\* where the current model turn sits in the research ledger (tool-call ids are
\* distinct across turns)
TurnPos ==
  CHOOSE i \in 1..Len(researchConversation) :
    researchConversation[i].ToolCalls = toolCalls

\* the tool-call ids of the messages that follow the current model turn
ToolMsgIds ==
  [k \in 1..(Len(researchConversation) - TurnPos) |->
     researchConversation[TurnPos + k].ToolCallID]

\* the ids of the first n invocations of the turn that the tool loop executes
\* (search_tool and reflection_tool), in receipt order
ExecutedIds(n) ==
  LET Known(c) == c.Name \in {"search_tool", "reflection_tool"}
      sel == SelectSeq(SubSeq(toolCalls, 1, n), Known)
  IN  [k \in 1..Len(sel) |-> sel[k].ID]

\* the tool loop is inside a model turn or has just returned from one
InToolLoop ==
  /\ toolCalls # <<>>
  /\ \/ pc \in {"dispatch", "batch", "searchRet"}
     \/ pc = "research" /\ iterRet = "cont"

\* C25: while invocation k of a turn is being executed (its search, its workers),
\* the ledger holds after the model's turn the tool messages of the executed
\* invocations before k and nothing else, in receipt order; when the loop is about
\* to dispatch an invocation no worker of an earlier one holds a job; when the
\* iteration returns the tool messages are in receipt order.
C25_SequentialDispatch ==
  InToolLoop =>
    /\ ToolMsgIds =
         ExecutedIds(IF pc = "research" THEN Len(toolCalls) ELSE tcIdx - 1)
    /\ \A k \in 1..Len(ToolMsgIds) :
         researchConversation[TurnPos + k].Role = "tool"
    /\ pc = "dispatch" => Cardinality(DOMAIN active) = 0

C25_Witness ==
  /\ pc = "batch"
  /\ tcIdx = 2
  /\ toolCalls[1].Name = "search_tool"
  /\ InFlight > 0
  /\ Len(ToolMsgIds) = 1

\* C26: when a Tool-Call Loop iteration has returned a continuation, the research
\* ledger holds after the model's turn one tool message per tool invocation of
\* the turn, carrying the invocations' ids in receipt order.
C26_OneToolMessagePerCall ==
  (pc = "research" /\ iterRet = "cont") =>
    ToolMsgIds = [k \in 1..Len(toolCalls) |-> toolCalls[k].ID]

\* the tool loop has appended the tool message of a search whose batch succeeded
SearchAnswered == batchRet.status = "ok" /\ pc \notin {"batch", "searchRet"}

\* the entries the batch added to the compressed notes
BatchEntries ==
  SubSeq(compressedResearchNotes, Len(preNotes) + 1, Len(compressedResearchNotes))

\* C27: after a search over N documents has been answered, the last message of
\* the research ledger is the tool message of that invocation and its content is
\* the newline-join, in index order, of the N entries the batch appended to the
\* compressed notes.
C27_ToolMessageIsJoinOfNotes ==
  SearchAnswered =>
    /\ researchConversation[Len(researchConversation)].Role = "tool"
    /\ researchConversation[Len(researchConversation)].ToolCallID = toolCalls[tcIdx].ID
    /\ Len(BatchEntries) = Len(results)
    /\ BatchEntries = ExpectedEntries
    /\ researchConversation[Len(researchConversation)].Content = JoinNL(BatchEntries)

C27_Witness ==
  /\ SearchAnswered
  /\ Len(results) = MaxDocs
  /\ outOfOrder
  /\ preNotes # <<>>

\* C28: the step of the tool loop at a reflection_tool invocation makes no
\* capability call (no search, no summarization) and leaves the compressed notes
\* as they are; unless the arguments fail to decode, it appends exactly one
\* message to the research ledger, the tool-role acknowledgement that carries
\* the invocation's id.
C28_ReflectionFrame ==
  [][ ( /\ pc = "dispatch"
        /\ toolCalls[tcIdx].Name = "reflection_tool"
        /\ <<pc, tcIdx, iterRet, researchConversation>>' #
             <<pc, tcIdx, iterRet, researchConversation>> ) =>
        /\ calls' = calls
        /\ compressedResearchNotes' = compressedResearchNotes
        /\ iterRet' # "err" =>
             researchConversation' =
               Append(researchConversation,
                      [Role |-> "tool",
                       Content |-> <<"Reflection recorded: ", toolCalls[tcIdx].Arguments>>,
                       Name |-> "reflection_tool",
                       ToolCallID |-> toolCalls[tcIdx].ID,
                       ToolCalls |-> <<>>])
    ]_vars

C28_Witness ==
  /\ pc = "research"
  /\ iterRet = "cont"
  /\ researchConversation[Len(researchConversation)].Name = "reflection_tool"
  /\ compressedResearchNotes # <<>>
  /\ calls["search"] = 1

\* C29: no job index has more than one item sent on the result channel, so a
\* batch of N documents puts at most N items on it.
C29_OneItemPerJob ==
  \A j \in 1..Len(results) : emitted[j] <= 1

\* C30: in every batch, whatever jobs fail, each of the N jobs is eventually
\* taken by a worker and has an item for it sent on the result channel.
C30_EveryJobReported ==
  <>(\A j \in 1..Len(results) : emitted[j] >= 1)

\* C31: the research ledger is empty until the Brief phase has succeeded; from
\* then on, through the whole Research phase and after it, its first message is
\* the user-role message whose content is the research brief.
C31_BriefSeedsLedger ==
  /\ (pc \in {"input", "clarify", "brief"} \/ "brief" \in phaseErr)
       => (researchConversation = <<>> /\ researchBrief = <<>>)
  /\ (pc \notin {"input", "clarify", "brief"} /\ "brief" \notin phaseErr)
       => /\ Len(researchConversation) >= 1
          /\ researchConversation[1].Role = "user"
          /\ researchConversation[1].Content = researchBrief
          /\ researchBrief # <<>>

C31_Witness ==
  /\ pc = "dispatch"
  /\ Len(researchConversation) >= 3
  /\ researchConversation[1] = Message("user", researchBrief, "", <<>>)
  /\ researchBrief = <<"brief">>

\* position of a control point in the order of Run's four workflows
PhaseRank(p) ==
  CASE p \in {"input", "clarify"} -> 1
    [] p = "brief" -> 2
    [] p \in {"research", "dispatch", "batch", "searchRet"} -> 3
    [] p = "report" -> 4
    [] OTHER -> 5

\* C32: the phases happen only in the order Clarify, Brief, Research, Report. A
\* line is read or a Clarify call made only before any Brief call; the Brief call
\* is made at most once; a Tool-Call Loop iteration starts only after the Brief
\* call succeeded and before any Report call; the Report call is made at most
\* once; and control never moves back to an earlier phase.
C32_PhaseOrder ==
  [][ /\ (calls'["clarify"] # calls["clarify"] \/ linesLeft' # linesLeft)
         => (calls["brief"] = 0 /\ calls["complete"] = 0 /\ calls["report"] = 0)
      /\ calls'["brief"] # calls["brief"]
         => (calls["brief"] = 0 /\ calls["complete"] = 0 /\ calls["report"] = 0)
      /\ calls'["complete"] # calls["complete"]
         => (calls["brief"] = 1 /\ "brief" \notin phaseErr /\ calls["report"] = 0)
      /\ calls'["report"] # calls["report"]
         => (calls["report"] = 0 /\ calls["brief"] = 1 /\ "brief" \notin phaseErr)
      /\ PhaseRank(pc') >= PhaseRank(pc) ]_vars

C32_Witness ==
  /\ pc = "done"
  /\ calls["clarify"] >= 1
  /\ calls["brief"] = 1
  /\ calls["complete"] >= 1
  /\ calls["report"] = 1
  /\ reportPrinted

\* C33: the two ledgers stay independent. A step of the Research or Report phase
\* leaves the clarify ledger unchanged, a step of the Clarify phase leaves the
\* research ledger unchanged, and no message of the research ledger is a message
\* of the clarify ledger; the only text the two ledgers share is the brief, which
\* is the content of the research ledger's first message.
C33_LedgersIndependent ==
  [][ /\ PhaseRank(pc) >= 3 => conversation' = conversation
      /\ PhaseRank(pc) = 1 => researchConversation' = researchConversation
      /\ \A i \in 1..Len(researchConversation'), k \in 1..Len(conversation') :
           /\ researchConversation'[i] # conversation'[k]
           /\ researchConversation'[i].Content = conversation'[k].Content
                => (i = 1 /\ conversation'[k].Content = researchBrief') ]_vars

C33_Witness ==
  /\ pc = "done"
  /\ Len(conversation) >= 3
  /\ Len(researchConversation) >= 4
  /\ conversation[Len(conversation)].Content = researchConversation[1].Content
  /\ \E i \in 2..Len(researchConversation) : researchConversation[i].Role = "tool"

\* C34: the compressed-notes list is append-only and is changed only by a
\* summarization batch of the Research phase that returns without error. Every
\* other step (Clarify, Brief, Report, a reflect invocation, a failed or refused
\* batch) leaves it unchanged, and a successful batch keeps the earlier entries as
\* a prefix, in their order, and adds one entry per document behind them.
C34_NotesAppendOnly ==
  [][ /\ compressedResearchNotes' # compressedResearchNotes
           => (pc = "batch" /\ batchRet.status = "none" /\ batchRet'.status = "ok")
      /\ (pc = "batch" /\ batchRet.status = "none" /\ batchRet'.status = "ok")
           => /\ IsPrefix(compressedResearchNotes, compressedResearchNotes')
              /\ Len(compressedResearchNotes') =
                   Len(compressedResearchNotes) + Len(results) ]_vars

C34_Witness ==
  /\ pc = "searchRet"
  /\ batchRet.status = "ok"
  /\ preNotes # <<>>
  /\ Len(compressedResearchNotes) > Len(preNotes)

\* C35: whenever a Clarify call is about to be made, the line just read from the
\* user is the last message of the clarify ledger: the ledger is not empty and
\* ends with a user-role message.
C35_ClarifySeesLatestInput ==
  pc = "clarify"
    => /\ Len(conversation) >= 1
       /\ conversation[Len(conversation)].Role = "user"

\* C36: the summarizer call always returns. Whatever jobs fail and however the
\* workers interleave, as long as every structured-completion call returns, the
\* orchestrator eventually returns (with the join or with an error), the producer
\* eventually closes the job queue, and the job queue never holds more items
\* than its capacity of one per document, so no send of the producer blocks.
C36_SummarizerReturns ==
  /\ [](produced - taken <= Len(results))
  /\ <>(batchRet.status # "none")
  /\ <>workClosed

C36_Witness ==
  /\ batchRet.status = "err"
  /\ Len(results) = MaxDocs
  /\ workClosed
  /\ Cardinality(failed) >= 2
  /\ got >= 1

\* C37: in a summarization batch every job is pulled from the job queue at most
\* once and only for an index of the batch: the number of pulls never exceeds the
\* number of documents, each pull starts exactly one structured-completion call,
\* every job in a worker's hands or already answered has an index in 1..N, and a
\* batch that returns without error has made exactly N calls.
C37_OneCallPerJob ==
  /\ taken <= produced
  /\ produced <= Len(results)
  /\ calls["summarize"] = taken
  /\ DOMAIN active \subseteq 1..taken
  /\ \A j \in 1..Len(emitted) : emitted[j] > 0 => j <= taken
  /\ batchRet.status = "ok" => calls["summarize"] = Len(results)

C37_Witness ==
  /\ batchRet.status = "ok"
  /\ Len(results) = MaxDocs
  /\ calls["summarize"] = MaxDocs
  /\ outOfOrder

\* the tool loop is at an invocation whose name is neither of the two it handles
AtUnknownTool ==
  /\ pc = "dispatch"
  /\ toolCalls[tcIdx].Name \notin {"search_tool", "reflection_tool"}

\* C38: the step the tool loop takes at an invocation with an unknown name
\* executes nothing and reports no error: no capability is called, the research
\* ledger and the compressed notes stay as they are, and the loop moves on to the
\* next invocation of the turn or, after the last one, the iteration returns a
\* continuation.
C38_UnknownToolSkipped ==
  [][ (AtUnknownTool /\ (pc' # pc \/ tcIdx' # tcIdx))
        => /\ calls' = calls
           /\ researchConversation' = researchConversation
           /\ compressedResearchNotes' = compressedResearchNotes
           /\ phaseErr' = phaseErr
           /\ toolCalls' = toolCalls
           /\ IF tcIdx < Len(toolCalls)
              THEN tcIdx' = tcIdx + 1 /\ pc' = "dispatch" /\ iterRet' = iterRet
              ELSE iterRet' = "cont" /\ pc' = "research" ]_vars

C38_Witness ==
  /\ pc = "dispatch"
  /\ tcIdx = 2
  /\ toolCalls[1].Name = "lookup_tool"
  /\ toolCalls[2].Name = "search_tool"
  /\ ToolMsgIds = <<>>
  /\ phaseErr = {}

\* an iteration has ended with the error of one of its tool invocations (the
\* completion call of the turn, whose number the call ids carry, had succeeded)
ToolFailedMidTurn ==
  /\ iterRet = "err"
  /\ toolCalls # <<>>
  /\ toolCalls[1].ID[2] = calls["complete"]

\* the contents of the search tool messages of the research ledger, in order
SearchContents ==
  LET IsSearch(m) == m.Role = "tool" /\ m.Name = "search_tool"
      sel == SelectSeq(researchConversation, IsSearch)
  IN  [k \in 1..Len(sel) |-> sel[k].Content]

\* C39: when a tool invocation fails in the middle of an iteration nothing is
\* rolled back. The research ledger still holds the model's turn followed by the
\* tool messages of the invocations executed before the failing one, and the
\* compressed notes still hold the entries of every search that succeeded, those
\* of the same turn included: their join is the join of the search tool messages.
C39_NoRollback ==
  ToolFailedMidTurn =>
    /\ researchConversation[TurnPos] = AssistantTurn(toolCalls)
    /\ ToolMsgIds = ExecutedIds(tcIdx - 1)
    /\ \A k \in 1..Len(ToolMsgIds) : researchConversation[TurnPos + k].Role = "tool"
    /\ JoinNL(compressedResearchNotes) = JoinNL(SearchContents)

C39_Witness ==
  /\ ToolFailedMidTurn
  /\ tcIdx = 2
  /\ toolCalls[1].Name = "search_tool"
  /\ Len(ToolMsgIds) = 1
  /\ compressedResearchNotes # <<>>
  /\ SearchContents # <<>>
====
